---- MODULE Spec2Model ----
(***************************************************************************)
(* The scoring trigger of the "home run" / "3 points" WebXR mini-game:     *)
(* the HomeRunSystem classes of src/iwsdk-app/src/index.js,                *)
(* src/unnamed/part_000 and src/unnamed/part_001.                          *)
(*                                                                         *)
(* Lengths are integers in hundredths of a scene unit (wallZ = -4 is -400, *)
(* wallZ = -3.5 is -350, a ball at z = -4.01 is -401): update only compares*)
(* coordinates, and the scaling keeps their order.                         *)
(***************************************************************************)
EXTENDS Integers, Sequences, FiniteSets

VARIABLES
    rev,          \* which HomeRunSystem revision is running
    wallZ,        \* config.wallZ
    goalXMin,     \* config.goalXMin (index.js only)
    goalXMax,     \* config.goalXMax (index.js only)
    show,         \* config.show / config.showMessageFn: "null", "fn", "throwing"
    balls,        \* queries.balls.entities, in iteration order
    triggered,    \* this.triggered
    notified,     \* log: the argument list of every call of the callback
    firedInRound, \* log: calls of the callback since construction or the last init()
    outcome,      \* how the last update() call ended
    aux           \* the state beside the trigger, a record of the fields named below

\* per caller of update(): "idle", or "past103" once line 103 let it through
pc == aux.pc
\* log: some caller passed line 103 while another was past it
overlapped == aux.overlapped
\* log: the place in the iteration of the last entity the loop of the last call tested
examined == aux.examined
\* the message board entity: "none", "hidden" or "visible"
board == aux.board
\* log: calls of world.createTransformEntity for a board
boardsCreated == aux.boardsCreated
\* pending setTimeout(hideMessage) timers
hideTimers == aux.hideTimers
\* log: calls of setTimeout(hideMessage)
timersSet == aux.timersSet
\* this.triggered of a z-only HomeRunSystem run beside the gated one
triggeredZ == aux.triggeredZ
\* log: a frame was checked with a ball outside [goalXMin, goalXMax]
tickedOutside == aux.tickedOutside

vars == <<rev, wallZ, goalXMin, goalXMax, show, balls, triggered, notified,
          firedInRound, outcome, aux>>

config == <<rev, wallZ, goalXMin, goalXMax, show>>

----------------------------------------------------------------------------
(* Bounds of the model *)

\* at most this many entities carry the HomeRunBall tag
MaxBalls == 2

\* init() re-arms only while the callback log is shorter than this
MaxNotified == 2

----------------------------------------------------------------------------
(* The revisions and what each registers *)

\*   "gated"      index.js:87       z line and goal mouth, show(msg)
\*   "dublin"     part_000:57       z line only, show(msg), wallZ -4
\*   "homerun"    part_000:280      z line only, show(msg), wallZ -3.5
\*   "temporary"  part_001:34       z line only, showMessageFn(), wallZ -3.5
\*   "dublinLine" part_001:378      z line only, show(msg), wallZ -3.5
Revs == {"gated", "dublin", "homerun", "temporary", "dublinLine"}

\* `const wallZ = ...` handed to registerSystem as configData.wallZ
RegisteredWallZ(r) == IF r \in {"gated", "dublin"} THEN -400 ELSE -350

\* the string literal of the scoring branch / of showHomeRunMessage
Message(r) ==
    IF r \in {"gated", "dublin", "dublinLine"} THEN "3 Points for Dublin!" ELSE "Home run!"

\* the argument list update() passes to the callback
CallArgs(r) == IF r = "temporary" THEN << >> ELSE << Message(r) >>

\* defaults of the goal mouth
DefaultGoalXMin == -200
DefaultGoalXMax == 200

\* goal mouths a caller may configure: the default one and a malformed one
Gates == { <<DefaultGoalXMin, DefaultGoalXMax>>, <<DefaultGoalXMax, DefaultGoalXMin>> }

\* values of the show config: unset, a function, a function (or object) whose call throws
Shows == {"null", "fn", "throwing"}

----------------------------------------------------------------------------
(* Tracked entities *)

\* an entity without a transform
NoObject3D == [has3D |-> FALSE, x |-> 0, z |-> 0]

\* ballMesh.position.set(0.4, 1.6, -1.5)
StartPos == [has3D |-> TRUE, x |-> 40, z |-> -150]

\* x coordinates tried: left of, on, between, on and right of the default posts where
\* the revision reads x; left of, between and right of them where it does not
XVals(r) ==
    IF r = "gated"
    THEN {DefaultGoalXMin - 1, DefaultGoalXMin, 0, DefaultGoalXMax, 300}
    ELSE {DefaultGoalXMin - 1, 0, 300}

\* z coordinates tried: just behind, on and just in front of the scoring plane
ZVals(w) == {w - 1, w, w + 1}

\* positions the physics engine may put a ball at
Positions(r, w) == {[has3D |-> TRUE, x |-> px, z |-> pz] : px \in XVals(r), pz \in ZVals(w)}

RECURSIVE SeqsUpTo(_, _)
SeqsUpTo(S, n) ==
    IF n = 0 THEN { << >> }
    ELSE LET shorter == SeqsUpTo(S, n - 1)
         IN  shorter \cup { Append(s, e) : s \in {t \in shorter : Len(t) = n - 1}, e \in S }

----------------------------------------------------------------------------
(* HomeRunSystem.update, piece by piece *)

\* mutation: the latch is never consulted
NeverLatched == FALSE

\* if (this.triggered) return;
AlreadyTriggered == triggered

\* mutation: the callback is called without the null check
CallbackNeverChecked == FALSE

\* if (!show) return;
NoCallback == show = "null"

\* mutation: <= for <
PastWallInclusive(z) == z <= wallZ

\* z < wallZ
PastWall(z) == z < wallZ

\* mutation: the posts themselves are out
BetweenPostsExclusive(x) == x > goalXMin /\ x < goalXMax

\* mutation: || for &&
BetweenPostsEither(x) == x >= goalXMin \/ x <= goalXMax

\* x >= goalXMin && x <= goalXMax
BetweenPosts(x) == x >= goalXMin /\ x <= goalXMax

\* mutation: the goal mouth alone, on either side of the plane
CrossedGatedXOnly(e) == e.has3D /\ BetweenPosts(e.x)

\* index.js: const pos = e.object3D?.position; if (!pos) continue; then the gated test
CrossedGated(e) == e.has3D /\ PastWall(e.z) /\ BetweenPosts(e.x)

\* mutation: the z-only revisions with the goal mouth of index.js
CrossedZOnlyBetweenPosts(e) ==
    PastWall(IF e.has3D THEN e.z ELSE 0) /\ BetweenPosts(IF e.has3D THEN e.x ELSE 0)

\* part_000, part_001:378: const z = e.object3D?.position.z ?? 0; if (z < wallZ)
CrossedZOnly(e) == PastWall(IF e.has3D THEN e.z ELSE 0)

\* part_001:34: if (!obj) continue; if (obj.position.z < wallZ)
CrossedTemporary(e) == e.has3D /\ PastWall(e.z)

Crossed(e) ==
    CASE rev = "gated"     -> CrossedGated(e)
      [] rev = "temporary" -> CrossedTemporary(e)
      [] OTHER             -> CrossedZOnly(e)

\* the entities of the query that pass the test, by their place in the iteration
Hits == {i \in 1..Len(balls) : Crossed(balls[i])}

\* mutation: every() for some(), which an empty query passes
FirstMatchEvery == IF Hits = 1..Len(balls) THEN 1 ELSE 0

\* the for loop: the index of the first entity that passes the test, 0 when none does
FirstMatch ==
    IF Hits = {} THEN 0 ELSE CHOOSE i \in Hits : \A j \in Hits : i <= j

\* calling the callback: a call of null or of a throwing function raises
CallOutcome == IF show \in {"fn", "reentrant"} THEN "fired" ELSE "threw"

\* mutation: show(...) is called before this.triggered = true
FlagSetAfterCall == FALSE

\* this.triggered = true; precedes show(...): the flag is set when the callback runs
FlagSetBeforeCall == TRUE

\* update() called from inside the callback: line 103 returns when the flag is set,
\* otherwise the nested call reaches the callback again (at least once more)
NestedCalls == IF FlagSetBeforeCall THEN 0 ELSE 1

\* how many times the scoring branch ends up calling the callback
CallsOnScore == IF show = "reentrant" THEN 1 + NestedCalls ELSE 1

\* this.triggered after the scoring branch: a callback that throws ends the branch, and
\* with it an assignment that would come after the call
FlagAfterScore == FlagSetBeforeCall \/ CallOutcome = "fired"

----------------------------------------------------------------------------
(* The state machine *)

\* the callers of update(): the frame loop, and a second caller where one is assumed
Callers == {1, 2}

\* nothing is in a call, no board exists, no timer is set, the twin is armed
AuxInit ==
    aux = [pc            |-> [c \in Callers |-> "idle"],
           overlapped    |-> FALSE,
           examined      |-> 0,
           board         |-> "none",
           boardsCreated |-> 0,
           hideTimers    |-> 0,
           timersSet     |-> 0,
           triggeredZ    |-> FALSE,
           tickedOutside |-> FALSE]

Init ==
    /\ AuxInit
    /\ rev \in Revs
    /\ wallZ = RegisteredWallZ(rev)
    /\ \E g \in (IF rev = "gated" THEN Gates ELSE {<<DefaultGoalXMin, DefaultGoalXMax>>}) :
          goalXMin = g[1] /\ goalXMax = g[2]
    /\ show \in Shows
    /\ balls \in SeqsUpTo({NoObject3D, StartPos}, MaxBalls)
    /\ triggered = FALSE
    /\ notified = << >>
    /\ firedInRound = 0
    /\ outcome = "none"

\* mutation: init() that leaves the flag alone
initKeepsFlag ==
    /\ Len(notified) < MaxNotified
    /\ firedInRound' = 0
    /\ UNCHANGED <<config, balls, triggered, notified, outcome>>

\* HomeRunSystem.init(): arms the trigger
init ==
    /\ Len(notified) < MaxNotified
    /\ triggered' = FALSE
    /\ firedInRound' = 0
    /\ UNCHANGED <<config, balls, notified, outcome>>

\* mutation: the flag follows the predicate (cleared when no ball is behind the plane)
updateFollowsPredicate ==
    /\ IF AlreadyTriggered \/ NoCallback \/ FirstMatch = 0
         THEN /\ outcome' = "idle"
              /\ triggered' = (triggered /\ FirstMatch # 0)
              /\ UNCHANGED <<notified, firedInRound>>
         ELSE /\ triggered' = TRUE
              /\ notified' = Append(notified, CallArgs(rev))
              /\ firedInRound' = firedInRound + 1
              /\ outcome' = CallOutcome
    /\ UNCHANGED <<config, balls>>

\* mutation: no break, the callback is called for every ball behind the plane
updateNoBreak ==
    /\ IF AlreadyTriggered \/ NoCallback \/ FirstMatch = 0
         THEN /\ outcome' = "idle"
              /\ UNCHANGED <<triggered, notified, firedInRound>>
         ELSE /\ triggered' = TRUE
              /\ notified' = notified \o [k \in 1..Cardinality(Hits) |-> CallArgs(rev)]
              /\ firedInRound' = firedInRound + Cardinality(Hits)
              /\ outcome' = CallOutcome
    /\ UNCHANGED <<config, balls>>

\* mutation: the scoring branch puts the ball that scored back at its start
updateRespawnsBall ==
    /\ IF AlreadyTriggered \/ NoCallback \/ FirstMatch = 0
         THEN /\ outcome' = "idle"
              /\ UNCHANGED <<triggered, notified, firedInRound, balls>>
         ELSE /\ triggered' = TRUE
              /\ notified' = Append(notified, CallArgs(rev))
              /\ firedInRound' = firedInRound + 1
              /\ outcome' = CallOutcome
              /\ balls' = [balls EXCEPT ![FirstMatch] = StartPos]
    /\ UNCHANGED config

\* mutation: the callback is looked at only after the flag is set
updateChecksCallbackLate ==
    /\ IF AlreadyTriggered \/ FirstMatch = 0
         THEN /\ outcome' = "idle"
              /\ UNCHANGED <<triggered, notified, firedInRound>>
         ELSE /\ triggered' = TRUE
              /\ IF NoCallback
                   THEN /\ outcome' = "idle"
                        /\ UNCHANGED <<notified, firedInRound>>
                   ELSE /\ notified' = Append(notified, CallArgs(rev))
                        /\ firedInRound' = firedInRound + 1
                        /\ outcome' = CallOutcome
    /\ UNCHANGED <<config, balls>>

\* HomeRunSystem.update(): one frame's scoring check
update ==
    /\ IF AlreadyTriggered \/ NoCallback \/ FirstMatch = 0
         THEN /\ outcome' = "idle"
              /\ UNCHANGED <<triggered, notified, firedInRound>>
         ELSE /\ triggered' = TRUE
              /\ notified' = Append(notified, CallArgs(rev))
              /\ firedInRound' = firedInRound + 1
              /\ outcome' = CallOutcome
    /\ UNCHANGED <<config, balls>>

\* update(), line 103: a caller passes the latch or returns at once
enter(c) ==
    /\ pc[c] = "idle"
    /\ IF AlreadyTriggered
         THEN /\ outcome' = "idle"
              /\ aux' = [aux EXCEPT !.examined = 0]
         ELSE /\ aux' = [aux EXCEPT
                          !.pc[c] = "past103",
                          !.overlapped = (overlapped
                                            \/ \E d \in Callers \ {c} : pc[d] = "past103")]
              /\ UNCHANGED outcome
    /\ UNCHANGED <<config, balls, triggered, notified, firedInRound>>

\* mutation: no break, every entity is tested and the callback called for each hit
scanNoBreak(c) ==
    /\ pc[c] = "past103"
    /\ IF NoCallback \/ FirstMatch = 0
         THEN /\ outcome' = "idle"
              /\ aux' = [aux EXCEPT !.pc[c] = "idle",
                                    !.examined = IF NoCallback THEN 0 ELSE Len(balls)]
              /\ UNCHANGED <<triggered, notified, firedInRound>>
         ELSE /\ triggered' = FlagAfterScore
              /\ notified' = notified \o [k \in 1..Cardinality(Hits) |-> CallArgs(rev)]
              /\ firedInRound' = firedInRound + Cardinality(Hits)
              /\ outcome' = CallOutcome
              /\ aux' = [aux EXCEPT !.pc[c] = "idle", !.examined = Len(balls)]
    /\ UNCHANGED <<config, balls>>

\* update(), lines 105-124: the config is read, the loop runs to its first match
scan(c) ==
    /\ pc[c] = "past103"
    /\ IF NoCallback \/ FirstMatch = 0
         THEN /\ outcome' = "idle"
              /\ aux' = [aux EXCEPT !.pc[c] = "idle",
                                    !.examined = IF NoCallback THEN 0 ELSE Len(balls)]
              /\ UNCHANGED <<triggered, notified, firedInRound>>
         ELSE /\ triggered' = FlagAfterScore
              /\ notified' = notified \o [k \in 1..CallsOnScore |-> CallArgs(rev)]
              /\ firedInRound' = firedInRound + CallsOnScore
              /\ outcome' = CallOutcome
              /\ aux' = [aux EXCEPT !.pc[c] = "idle", !.examined = FirstMatch]
    /\ UNCHANGED <<config, balls>>

\* the physics engine or a grab moves one ball that has a transform
MoveBall ==
    \E i \in 1..Len(balls), p \in Positions(rev, wallZ) :
        /\ balls[i].has3D
        /\ balls[i] # p
        /\ balls' = [balls EXCEPT ![i] = p]
        /\ UNCHANGED <<config, triggered, notified, firedInRound, outcome>>

\* the show config signal is written
ConfigureShow ==
    \E s \in Shows \ {show} :
        /\ show' = s
        /\ UNCHANGED <<rev, wallZ, goalXMin, goalXMax, balls, triggered, notified,
                       firedInRound, outcome>>

\* the trigger alone: its operations and its inputs
Next ==
    \/ init /\ UNCHANGED aux
    \/ update /\ UNCHANGED aux
    \/ MoveBall /\ UNCHANGED aux
    \/ ConfigureShow /\ UNCHANGED aux

Spec == Init /\ [][Next]_vars

----------------------------------------------------------------------------
(* update() statement by statement, on a scene that stands still during the call *)

\* callbacks a caller may hand in: a function, one that throws, one that calls update()
ShowsInCall == {"fn", "throwing", "reentrant"}

InitLoop ==
    /\ AuxInit
    /\ rev \in Revs
    /\ wallZ = RegisteredWallZ(rev)
    /\ goalXMin = DefaultGoalXMin
    /\ goalXMax = DefaultGoalXMax
    /\ show \in ShowsInCall
    /\ balls \in SeqsUpTo(Positions(rev, wallZ) \cup {NoObject3D}, MaxBalls)
    /\ triggered = FALSE
    /\ notified = << >>
    /\ firedInRound = 0
    /\ outcome = "none"

\* the frame loop is the only caller: each call runs to its end before the next
NextLoop ==
    \/ enter(1)
    \/ scan(1)

SpecLoop == InitLoop /\ [][NextLoop]_vars

\* two callers whose calls may interleave between line 103 and the loop
NextInterleaved ==
    \/ \E c \in Callers : enter(c)
    \/ \E c \in Callers : scan(c)

SpecInterleaved == InitLoop /\ [][NextInterleaved]_vars

\* the wallZ config signal is a Float32 of either sign: the registered value, and a
\* plane half a metre on the positive side of the origin
WallZs(r) == {RegisteredWallZ(r), 50}

\* a system configured with a plane on either side of the origin
InitAnyWall ==
    /\ AuxInit
    /\ rev \in Revs
    /\ wallZ \in WallZs(rev)
    /\ goalXMin = DefaultGoalXMin
    /\ goalXMax = DefaultGoalXMax
    /\ show \in Shows
    /\ balls \in SeqsUpTo({NoObject3D, StartPos}, MaxBalls)
    /\ triggered = FALSE
    /\ notified = << >>
    /\ firedInRound = 0
    /\ outcome = "none"

NextAnyWall ==
    \/ init /\ UNCHANGED aux
    \/ update /\ UNCHANGED aux
    \/ ConfigureShow /\ UNCHANGED aux

SpecAnyWall == InitAnyWall /\ [][NextAnyWall]_vars

\* a system registered without callback, the balls lying anywhere
InitLateCallback ==
    /\ AuxInit
    /\ rev \in Revs
    /\ wallZ = RegisteredWallZ(rev)
    /\ goalXMin = DefaultGoalXMin
    /\ goalXMax = DefaultGoalXMax
    /\ show = "null"
    /\ balls \in SeqsUpTo(Positions(rev, wallZ) \cup {NoObject3D}, MaxBalls)
    /\ triggered = FALSE
    /\ notified = << >>
    /\ firedInRound = 0
    /\ outcome = "none"

\* frames are checked from the start; the show signal is written between two frames,
\* after a frame that detected nothing, while the balls lie still
NextLateCallback ==
    \/ update /\ UNCHANGED aux
    \/ outcome = "idle" /\ ConfigureShow /\ UNCHANGED aux

SpecLateCallback == InitLateCallback /\ [][NextLateCallback]_vars

----------------------------------------------------------------------------
(* The message board behind the callback, on the fields of aux *)

\* init() of createMessageBoard / initMessageBoard(): the entity is created on the
\* first call, invisible, and kept
initMessageBoard(a) ==
    IF a.board = "none"
      THEN [a EXCEPT !.board = "hidden", !.boardsCreated = @ + 1]
      ELSE a

\* mutation: the message is drawn and the entity left invisible
showMessageStaysHidden(a) == initMessageBoard(a)

\* show(text) of createMessageBoard / showMessage(message)
showMessage(a) == [initMessageBoard(a) EXCEPT !.board = "visible"]

\* mutation: hideMessage that leaves the entity as it is
hideMessageKeepsBoard(a) == a

\* hideMessage()
hideMessage(a) == IF a.board = "none" THEN a ELSE [a EXCEPT !.board = "hidden"]

\* showTemporaryMessage(message, duration): show, then setTimeout(hideMessage, duration)
showTemporaryMessage(a) ==
    [showMessage(a) EXCEPT !.hideTimers = @ + 1, !.timersSet = @ + 1]

\* the function registerSystem is given as the callback
WiredCallback(a) == IF rev = "temporary" THEN showTemporaryMessage(a) ELSE showMessage(a)

\* the program as World.create(...).then wires it: the callback is the board's, and
\* init() has run once, at registration
InitBoard ==
    /\ AuxInit
    /\ rev \in Revs
    /\ wallZ = RegisteredWallZ(rev)
    /\ goalXMin = DefaultGoalXMin
    /\ goalXMax = DefaultGoalXMax
    /\ show = "fn"
    /\ balls \in SeqsUpTo({StartPos}, MaxBalls)
    /\ triggered = FALSE
    /\ notified = << >>
    /\ firedInRound = 0
    /\ outcome = "none"

\* one frame of the wired program: update(), and inside it the callback's work
updateWired ==
    /\ update
    /\ aux' = IF Len(notified') > Len(notified) THEN WiredCallback(aux) ELSE aux

\* a pending setTimeout(hideMessage, duration) comes due
TimerFires ==
    /\ hideTimers > 0
    /\ aux' = [hideMessage(aux) EXCEPT !.hideTimers = @ - 1]
    /\ UNCHANGED <<config, balls, triggered, notified, firedInRound, outcome>>

NextBoard ==
    \/ updateWired
    \/ TimerFires
    \/ MoveBall /\ UNCHANGED aux

SpecBoard == InitBoard /\ [][NextBoard]_vars

----------------------------------------------------------------------------
(* The x-gated system of index.js and the z-only system of part_000 on the same frames *)

\* both systems registered with the same wallZ and the same callback, every tracked
\* entity with a position
InitSideBySide ==
    /\ AuxInit
    /\ rev = "gated"
    /\ wallZ = RegisteredWallZ(rev)
    /\ \E g \in Gates : goalXMin = g[1] /\ goalXMax = g[2]
    /\ show \in Shows
    /\ balls \in SeqsUpTo(Positions(rev, wallZ), MaxBalls)
    /\ triggered = FALSE
    /\ notified = << >>
    /\ firedInRound = 0
    /\ outcome = "none"

\* update() of part_000:69 on its own flag: latch, callback check, z-only loop
updateZOnly(a) ==
    [a EXCEPT !.triggeredZ =
        IF a.triggeredZ \/ NoCallback
          THEN a.triggeredZ
          ELSE \E i \in 1..Len(balls) : CrossedZOnly(balls[i])]

\* one frame: both systems check the same entities
updateBoth ==
    /\ update
    /\ aux' = [updateZOnly(aux) EXCEPT
                 !.tickedOutside = @ \/ \E i \in 1..Len(balls) : ~BetweenPosts(balls[i].x)]

NextSideBySide ==
    \/ updateBoth
    \/ MoveBall /\ UNCHANGED aux

SpecSideBySide == InitSideBySide /\ [][NextSideBySide]_vars

----------------------------------------------------------------------------
(* The scoring predicate as the specification words it, for the properties below *)

\* a tracked object is behind the plane and, where an x range is configured, inside it
SpecScores(e) ==
    /\ e.has3D
    /\ e.z < wallZ
    /\ (rev = "gated" => (goalXMin <= e.x /\ e.x <= goalXMax))

SomeBallScores == \E i \in 1..Len(balls) : SpecScores(balls[i])

\* this step is a call that scored: it set the flag and called the callback once more
Scored == triggered' /\ Len(notified') = Len(notified) + 1

\* this step detected nothing: no call of the callback, the flag as it was
NothingDetected == outcome' = "idle" /\ notified' = notified /\ triggered' = triggered

----------------------------------------------------------------------------
(* C1: once an update call has scored (set the flag and called the callback), every  *)
(* later update call detects nothing and calls nothing, until init() re-arms.        *)
C1_AtMostOneTriggerPerRound ==
    [][(update /\ firedInRound >= 1) => (NothingDetected /\ firedInRound' <= 1)]_vars

\* a state after a scoring call and a later call that saw a scoring ball and stayed idle
C1_Witness ==
    /\ firedInRound = 1
    /\ outcome = "idle"
    /\ show = "fn"
    /\ SomeBallScores

(* C2: armed and with a callback, an update call scores exactly when some tracked    *)
(* object has z < wallZ and, where an x range is configured, goalXMin <= x <=        *)
(* goalXMax, both ends included.                                                     *)
C2_ScoresIffPredicate ==
    [][(update /\ ~triggered /\ show # "null") =>
          (Scored <=> \E i \in 1..Len(balls) :
                         /\ balls[i].has3D
                         /\ balls[i].z < wallZ
                         /\ (rev = "gated" =>
                               (balls[i].x >= goalXMin /\ balls[i].x <= goalXMax)))]_vars

\* xMin = -2, xMax = 2, planeZ = -4, the only ball on the right post at z = -4.01: scored
C2_Witness ==
    /\ rev = "gated"
    /\ goalXMin = -200 /\ goalXMax = 200 /\ wallZ = -400
    /\ balls = << [has3D |-> TRUE, x |-> 200, z |-> -401] >>
    /\ outcome = "fired"
    /\ Len(notified) = 1

(* C3: the z comparison is strict: an update call on which every tracked object has  *)
(* z >= wallZ (z = wallZ included) detects nothing.                                  *)
C3_StrictZ ==
    [][(update /\ \A i \in 1..Len(balls) : balls[i].has3D => balls[i].z >= wallZ)
          => NothingDetected]_vars

\* an armed call with a callback and a ball exactly on the plane ended idle
C3_Witness ==
    /\ ~triggered
    /\ show = "fn"
    /\ outcome = "idle"
    /\ Len(balls) >= 1
    /\ \E i \in 1..Len(balls) : balls[i].has3D /\ balls[i].z = wallZ
    /\ \A i \in 1..Len(balls) : balls[i].has3D /\ balls[i].z >= wallZ

(* C4: in the revisions without an x range, an armed update call with a callback     *)
(* scores as soon as some tracked object has z < wallZ, whatever its x.              *)
C4_UngatedIgnoresX ==
    [][(/\ update
        /\ rev # "gated"
        /\ ~triggered
        /\ show # "null"
        /\ \E i \in 1..Len(balls) : balls[i].has3D /\ balls[i].z < wallZ)
          => Scored]_vars

\* an ungated revision scored on a single ball well outside the posts of index.js
C4_Witness ==
    /\ rev # "gated"
    /\ Len(balls) = 1
    /\ balls[1].has3D /\ balls[1].x = 300 /\ balls[1].z < wallZ
    /\ outcome = "fired"
    /\ triggered

(* C5: init() (the reset) re-arms: it sets triggered to false, and the next update   *)
(* call on which an object satisfies the predicate calls the callback again.         *)
C5_ResetRearms ==
    [][/\ init => ~triggered'
       /\ (/\ update
           /\ Len(notified) >= 1
           /\ firedInRound = 0
           /\ show # "null"
           /\ SomeBallScores) => Scored]_vars

\* the callback has been called twice, the second time after a re-arming
C5_Witness ==
    /\ Len(notified) = 2
    /\ firedInRound = 1
    /\ triggered
    /\ outcome = "fired"

(* C6: a two-state machine, Armed at first: the flag goes from false to true only in *)
(* an update call in which some object satisfied the predicate, at most once per     *)
(* arming; it goes from true to false only through init(); update never clears it.   *)
C6_TwoStateMachine ==
    /\ triggered = FALSE
    /\ [][/\ triggered' \in BOOLEAN
          /\ (~triggered /\ triggered') => (update /\ SomeBallScores /\ firedInRound' = 1)
          /\ (triggered /\ ~triggered') => init
          /\ (update /\ triggered) => triggered']_vars

\* Armed again after Triggered: a trigger has fired and init() has cleared the flag
C6_Witness ==
    /\ ~triggered
    /\ firedInRound = 0
    /\ Len(notified) >= 1

(* C7 as stated: the scoring call calls the callback exactly once, with the          *)
(* configured message string as its single argument.                                 *)
C7_Original ==
    [][(update /\ ~triggered /\ triggered')
          => notified' = Append(notified, << Message(rev) >>)]_vars

(* C7, amended: the scoring call calls the callback exactly once, during the call;   *)
(* with the fixed message as its single argument in index.js, part_000 and           *)
(* part_001:378, and with no argument in part_001:34, whose callback supplies the    *)
(* text "Home run!" itself.                                                          *)
C7_NotifiedOnceOnScore ==
    [][(update /\ ~triggered /\ triggered')
          => /\ Len(notified') = Len(notified) + 1
             /\ \A k \in 1..Len(notified) : notified'[k] = notified[k]
             /\ notified'[Len(notified')] =
                  (CASE rev \in {"gated", "dublin", "dublinLine"} -> << "3 Points for Dublin!" >>
                     [] rev = "homerun"                           -> << "Home run!" >>
                     [] rev = "temporary"                         -> << >>)]_vars

\* the scoring call of part_001:34 has happened, with two balls behind the plane
C7_Witness ==
    /\ rev = "temporary"
    /\ triggered
    /\ outcome = "fired"
    /\ notified = << << >> >>
    /\ Len(balls) = 2
    /\ \A i \in 1..2 : SpecScores(balls[i])

(* C8: an update call with no tracked object, in any state, detects nothing, calls   *)
(* nothing and leaves triggered as it was.                                           *)
C8_EmptyNoScore ==
    [][(update /\ balls = << >>) => NothingDetected]_vars

\* an armed call with a callback and no tracked object ended idle
C8_Witness ==
    /\ balls = << >>
    /\ show = "fn"
    /\ ~triggered
    /\ outcome = "idle"

(* C9: with the callback absent, every update call is a no-op: it raises nothing,    *)
(* calls nothing and changes nothing, wherever the tracked objects are.              *)
C9_AbsentCallbackNoOp ==
    [][(update /\ show = "null")
          => (NothingDetected /\ firedInRound' = firedInRound /\ balls' = balls)]_vars

\* a call without callback ended idle with a scoring ball in place
C9_Witness ==
    /\ show = "null"
    /\ outcome = "idle"
    /\ ~triggered
    /\ notified = << >>
    /\ SomeBallScores

(* C10: with a malformed gate (goalXMin > goalXMax) the trigger never reaches        *)
(* Triggered, the callback is never called, and no update call raises.               *)
C10_MalformedGateUnreachable ==
    goalXMin > goalXMax =>
        /\ ~triggered
        /\ notified = << >>
        /\ firedInRound = 0
        /\ outcome \in {"none", "idle"}

\* malformed gate, a throwing callback, a ball behind the plane at x = 0: the call was idle
C10_Witness ==
    /\ goalXMin > goalXMax
    /\ show = "throwing"
    /\ outcome = "idle"
    /\ \E i \in 1..Len(balls) : balls[i].has3D /\ balls[i].x = 0 /\ balls[i].z < wallZ

(* C11: update leaves every tracked object's position and the configuration (wallZ,  *)
(* goalXMin, goalXMax, the callback, the message) as they were, and init leaves the  *)
(* configuration as it was: of the program's state they write triggered only.        *)
C11_WritesOnlyTheFlag ==
    [][/\ update => (balls' = balls /\ wallZ' = wallZ /\ goalXMin' = goalXMin
                       /\ goalXMax' = goalXMax /\ show' = show /\ rev' = rev
                       /\ Message(rev') = Message(rev))
       /\ init => (balls' = balls /\ wallZ' = wallZ /\ goalXMin' = goalXMin
                       /\ goalXMax' = goalXMax /\ show' = show /\ rev' = rev
                       /\ outcome' = outcome /\ notified' = notified)]_vars

\* right after a scoring call the ball that scored is still where it scored
C11_Witness ==
    /\ outcome = "fired"
    /\ triggered
    /\ Len(balls) = 1
    /\ SpecScores(balls[1])
    /\ Len(notified) = 1

C13_FirstMatchWins ==
    outcome \in {"fired", "threw"} =>
        /\ triggered
        /\ Len(notified) = 1
        /\ SomeBallScores
        /\ SpecScores(balls[examined])
        /\ \A i \in 1..(examined - 1) : ~SpecScores(balls[i])

\* two balls both behind the plane and in the goal mouth: one call of the callback,
\* and the loop stopped at the first ball
C13_Witness ==
    /\ Len(balls) = 2
    /\ \A i \in 1..2 : SpecScores(balls[i])
    /\ outcome = "fired"
    /\ examined = 1
    /\ Len(notified) = 1
    /\ pc[1] = "idle"

(* C14: no hysteresis: armed and with a callback, one update call on which an object *)
(* satisfies the predicate scores on that call, wherever the objects were before     *)
(* (the engine may move a ball from anywhere to anywhere between two calls); a ball  *)
(* moving back in front of the plane afterwards neither clears the flag nor makes    *)
(* the callback be called again.                                                     *)
C14_NoHysteresis ==
    [][/\ (firedInRound = 0 /\ show # "null" /\ balls' = balls /\ SomeBallScores /\ update)
            => (triggered' /\ firedInRound' = 1)
       /\ balls' # balls => (triggered' = triggered /\ notified' = notified)
       /\ (firedInRound = 1 /\ balls' = balls /\ ~SomeBallScores /\ update)
            => (triggered' /\ notified' = notified /\ firedInRound' = 1)]_vars

\* scored, then every ball moved in front of the plane, then a call that stayed idle
\* with the flag still set
C14_Witness ==
    /\ triggered
    /\ firedInRound = 1
    /\ outcome = "idle"
    /\ Len(balls) >= 1
    /\ \A i \in 1..Len(balls) : balls[i].has3D /\ balls[i].z > wallZ

(* C15: a tracked entity without object3D never causes a score and never makes       *)
(* update raise, for every configured wallZ, positive values included, in every      *)
(* revision: while no tracked entity has an object3D, no call scores or throws.      *)
C15_TransformlessNeverScores ==
    (\A i \in 1..Len(balls) : ~balls[i].has3D) =>
        /\ ~triggered
        /\ firedInRound = 0
        /\ outcome \in {"none", "idle"}

(* C16: an update call made while the callback is absent does not consume the        *)
(* one-shot: triggered stays false even with an object satisfying the predicate, so  *)
(* once a callback is configured the next update call with a qualifying object sets  *)
(* triggered and calls the callback.                                                 *)
C16_AbsentCallbackKeepsOneShot ==
    [][/\ (show = "null" /\ ~triggered /\ balls' = balls /\ update)
            => (~triggered' /\ notified' = notified /\ firedInRound' = firedInRound)
       /\ (show # "null" /\ ~triggered /\ balls' = balls /\ SomeBallScores /\ update)
            => (Scored /\ firedInRound' = 1)]_vars

\* the ball lay behind the plane for a frame without callback, the callback was then
\* configured, and the next frame scored
C16_Witness ==
    /\ show = "fn"
    /\ outcome = "fired"
    /\ triggered
    /\ notified = <<CallArgs(rev)>>
    /\ SomeBallScores

C18_PersistentBoard ==
    rev # "temporary" =>
        /\ (board # "none") <=> triggered
        /\ (board = "visible") <=> triggered
        /\ boardsCreated = (IF triggered THEN 1 ELSE 0)
        /\ hideTimers = 0

\* the board is up after the score, and a later frame with the ball back in front of
\* the plane left it up
C18_Witness ==
    /\ rev # "temporary"
    /\ triggered
    /\ board = "visible"
    /\ boardsCreated = 1
    /\ outcome = "idle"
    /\ Len(balls) >= 1
    /\ \A i \in 1..Len(balls) : balls[i].z > wallZ

(* C19: in the revision with the temporary message, after a score the board becomes  *)
(* visible, exactly one hide timer is ever scheduled, and once that timer has fired  *)
(* the board is invisible in every later state, whatever positions later frames see. *)
C19_TemporaryBoard ==
    rev = "temporary" =>
        /\ timersSet = (IF triggered THEN 1 ELSE 0)
        /\ hideTimers <= timersSet
        /\ (triggered /\ hideTimers = 1) => board = "visible"
        /\ (triggered /\ hideTimers = 0) => board = "hidden"
        /\ ~triggered => board = "none"

\* the timer has fired, and a later frame that saw a ball behind the plane left the
\* board hidden and set no timer
C19_Witness ==
    /\ rev = "temporary"
    /\ triggered
    /\ timersSet = 1
    /\ hideTimers = 0
    /\ board = "hidden"
    /\ outcome = "idle"
    /\ SomeBallScores

(* C20 as stated: the gated and the z-only system run side by side on the same       *)
(* frames, every entity with a position: gated.triggered implies ungated.triggered,  *)
(* and the two agree exactly when every object's x lay within [goalXMin, goalXMax]   *)
(* on the frames checked.                                                            *)
C20_Original ==
    /\ triggered => triggeredZ
    /\ (triggered = triggeredZ) <=> ~tickedOutside

(* C20, amended: gated.triggered implies ungated.triggered, and the two agree as     *)
(* long as every object's x lay within [goalXMin, goalXMax] on every frame checked;  *)
(* they may also agree with an object outside the range.                             *)
C20_GatedRefinesZOnly ==
    /\ triggered => triggeredZ
    /\ ~tickedOutside => (triggered = triggeredZ)

\* both have fired, on frames that never saw a ball outside the goal mouth
C20_Witness ==
    /\ triggered
    /\ triggeredZ
    /\ ~tickedOutside
    /\ firedInRound = 1
    /\ Len(balls) >= 1

====
